---- MODULE Spec2Model ----
(***************************************************************************)
(* Model of pyodrx/geometry.py: the segment kinds Line, Arc, Spiral and    *)
(* ParamPoly3, the _Geometry wrapper and the PlanView fold                 *)
(* (adjust_geometires).                                                    *)
(*                                                                         *)
(* Numbers.  The code computes in floats with cos, sin, pi.  The model     *)
(* restricts the inputs to a grid on which every operation of the code is  *)
(* exact, and keeps the unit of each quantity:                             *)
(*   - an angle (heading, sweep angle) is an integer number of quarter     *)
(*     turns, so the float it stands for is n * pi/2 and np.pi/2 is        *)
(*     HalfPi = 1; cos and sin of such angles are -1, 0 or 1;              *)
(*   - a curvature is an integer number of quarter turns per unit length,  *)
(*     so length * curvature is an angle, as in the code;                  *)
(*   - a radius 1/|curvature| is then a multiple of 2/pi; it is kept as    *)
(*     the integer RadScale/|curvature| (fixed point, denominator          *)
(*     RadScale), and radius * angle is a plain length again;              *)
(*   - a coordinate is n + (r/RadScale)*(2/pi) + (opaque Fresnel terms):   *)
(*     the record [n, r, f].  The Fresnel branch of EulerSpiral.calc is    *)
(*     not evaluated: its result is the uninterpreted term of its          *)
(*     arguments, appended to f.                                           *)
(* Python's None is << >> and a supplied number v is <<v>>.                *)
(*                                                                         *)
(* Records.  Every record constructor lists its fields in the order in     *)
(* which the field names first occur in this module, which is the order    *)
(* TLC keeps them in: a record is then built already normalised.           *)
(***************************************************************************)
EXTENDS Integers, Sequences, FiniteSets, TLC

\* ------------------------------------------------------------------ bounds
\* heap slots for segment-spec constructor calls
MaxSpecs == 2
\* add_geometry calls on the PlanView
MaxSegs == 2
\* adjust_geometires calls on the PlanView
MaxAdjust == 2
\* get_end_data calls made by the caller through a _Geometry of the PlanView
MaxEvals == 1
\* get_end_data calls made by the caller on a segment spec
MaxCalls == 2

\* ------------------------------------------------------------------ numbers
None == << >>

Some(v) == <<v>>

\* Python truthiness of an optional number: None and 0 are falsy
Truthy(o) == o # None /\ o[1] # 0

Abs(v) == IF v < 0 THEN -v ELSE v

\* np.pi/2 in the model's angle unit (quarter turns)
HalfPi == 1

Cos(q) == CASE q % 4 = 0 -> 1 [] q % 4 = 1 -> 0 [] q % 4 = 2 -> -1 [] q % 4 = 3 -> 0

Sin(q) == CASE q % 4 = 0 -> 0 [] q % 4 = 1 -> 1 [] q % 4 = 2 -> 0 [] q % 4 = 3 -> -1

\* np.arctan2(x1, x2) on the axes, in quarter turns
ArcTan2(x1, x2) ==
  CASE x1 = 0 /\ x2 >= 0 -> 0
    [] x1 > 0 /\ x2 = 0 -> HalfPi
    [] x1 = 0 /\ x2 < 0 -> 2 * HalfPi
    [] x1 < 0 /\ x2 = 0 -> -HalfPi

\* the curvatures the model constructs arcs and spirals with
Curvatures == {-1, 0, 2}

\* denominator of the fixed-point radius: the least m with m/|k| whole
RadScale == CHOOSE m \in 1..4 : /\ \A k \in Curvatures \ {0} : m % Abs(k) = 0
                                /\ \A j \in 1..(m - 1) : \E k \in Curvatures \ {0} : j % Abs(k) # 0

\* coordinates
Coord(n, r) == [n |-> n, r |-> r, f |-> << >>]

CAdd(c, n, r) == [c EXCEPT !.n = @ + n, !.r = @ + r]

\* F(v), with v evaluated once
Bind(v, F(_)) == CHOOSE res \in {F(w) : w \in {v}} : TRUE

\* exact integer square root (the inputs keep the radicand a square)
ISqrt(v) == CHOOSE q \in 0..v : q * q = v

\* ------------------------------------------------------------------ results
\* no object: what a constructor that raised leaves the caller with
NoObj == [kind |-> "none"]

\* the outcome of a constructor or get_end_data call: the spec object after the
\* call and either the exception raised or the returned tuple (x, y, h, length)
Raise(obj, e) == [obj |-> obj, err |-> e]

Ret(obj, x, y, h, length) ==
  [obj |-> obj, err |-> "none", x |-> x, y |-> y, h |-> h, length |-> length]

\* ------------------------------------------------------------------ Line
LineInit(length) == [obj |-> [kind |-> "Line", length |-> length], err |-> "none"]

LineGetEndData(self, x, y, h) ==
  LET new_x == CAdd(x, self.length * Cos(h), 0)
      new_y == CAdd(y, self.length * Sin(h), 0)
      new_h == h
  IN  Ret(self, new_x, new_y, new_h, Some(self.length))

\* ------------------------------------------------------------------ Arc
\* ArcInit testing the truth value of length and angle in place of == None
ArcInitTruthy(curvature, length, angle) ==
  IF ~Truthy(length) /\ ~Truthy(angle) THEN Raise(NoObj, "ValueError")
  ELSE IF Truthy(length) /\ Truthy(angle) THEN Raise(NoObj, "ValueError")
  ELSE IF curvature = 0 THEN Raise(NoObj, "ValueError")
  ELSE [obj |-> [kind |-> "Arc", length |-> length, curvature |-> curvature,
                 angle |-> angle],
        err |-> "none"]

ArcInit(curvature, length, angle) ==
  IF length = None /\ angle = None THEN Raise(NoObj, "ValueError")
  ELSE IF length # None /\ angle # None THEN Raise(NoObj, "ValueError")
  ELSE IF curvature = 0 THEN Raise(NoObj, "ValueError")
  ELSE [obj |-> [kind |-> "Arc", length |-> length, curvature |-> curvature,
                 angle |-> angle],
        err |-> "none"]

ArcGetEndData(self, x, y, h) ==
  LET radius == RadScale \div Abs(self.curvature)
      phi_0 == IF self.curvature < 0 THEN h + HalfPi ELSE h - HalfPi
      x_0 == CAdd(x, 0, -(Cos(phi_0) * radius))
      y_0 == CAdd(y, 0, -(Sin(phi_0) * radius))
      \* if self.length: self.angle = self.length * self.curvature
      self1 == IF Truthy(self.length)
               THEN [self EXCEPT !.angle = Some(self.length[1] * self.curvature)]
               ELSE self
  IN  IF self1.angle = None
      THEN Raise(self1, "TypeError")  \* None + phi_0
      ELSE
        LET new_ang == self1.angle[1] + phi_0
            \* if self.angle: self.length = np.abs(radius*self.angle)
            self2 == IF Truthy(self1.angle)
                     THEN [self1 EXCEPT !.length =
                             Some(Abs(radius * self1.angle[1]) \div RadScale)]
                     ELSE self1
            new_h == h + self2.angle[1]
            new_x == CAdd(x_0, 0, Cos(new_ang) * radius)
            new_y == CAdd(y_0, 0, Sin(new_ang) * radius)
        IN  Ret(self2, new_x, new_y, new_h, self2.length)

\* ------------------------------------------------------------------ EulerSpiral
\* createFromLengthAndCurvature: gamma, or ZeroDivisionError for length 0
CreateFromLengthAndCurvature(length, curvStart, curvEnd) ==
  IF length = 0 THEN [err |-> "ZeroDivisionError"]
  ELSE [err |-> "none", gamma |-> (1 * (curvEnd - curvStart)) \div length]

\* Calc with the arc branch dividing by |kappa0| in place of kappa0
CalcAbsCurvature(gamma, s, x0, y0, kappa0, theta0) ==
  LET theta == (gamma * s * s) \div 2 + kappa0 * s + theta0
  IN  IF gamma = 0 /\ kappa0 = 0
      THEN [x |-> CAdd(x0, s * Cos(theta0), 0),
            y |-> CAdd(y0, s * Sin(theta0), 0), t |-> theta]
      ELSE IF gamma = 0 /\ kappa0 # 0
      THEN LET inv == RadScale \div Abs(kappa0)
               re == Sin(kappa0 * s)
               im == 1 - Cos(kappa0 * s)
           IN  [x |-> CAdd(x0, 0, inv * (Cos(theta0) * re - Sin(theta0) * im)),
                y |-> CAdd(y0, 0, inv * (Sin(theta0) * re + Cos(theta0) * im)),
                t |-> theta]
      ELSE [x |-> [x0 EXCEPT !.f = Append(@, <<"re", gamma, kappa0, s, theta0 % 4>>)],
            y |-> [y0 EXCEPT !.f = Append(@, <<"im", gamma, kappa0, s, theta0 % 4>>)],
            t |-> theta]

\* calc(s, x0, y0, kappa0, theta0) of the spiral with rate gamma
Calc(gamma, s, x0, y0, kappa0, theta0) ==
  LET theta == (gamma * s * s) \div 2 + kappa0 * s + theta0
  IN  IF gamma = 0 /\ kappa0 = 0
      THEN \* straight line: C0 + s * exp(1j * theta0)
           [x |-> CAdd(x0, s * Cos(theta0), 0),
            y |-> CAdd(y0, s * Sin(theta0), 0), t |-> theta]
      ELSE IF gamma = 0 /\ kappa0 # 0
      THEN \* arc: C0 + exp(1j*theta0)/kappa0 * (sin(kappa0*s) + 1j*(1 - cos(kappa0*s)))
           LET inv == RadScale \div kappa0
               re == Sin(kappa0 * s)
               im == 1 - Cos(kappa0 * s)
           IN  [x |-> CAdd(x0, 0, inv * (Cos(theta0) * re - Sin(theta0) * im)),
                y |-> CAdd(y0, 0, inv * (Sin(theta0) * re + Cos(theta0) * im)),
                t |-> theta]
      ELSE \* Fresnel integrals: the uninterpreted term of the arguments
           [x |-> [x0 EXCEPT !.f = Append(@, <<"re", gamma, kappa0, s, theta0 % 4>>)],
            y |-> [y0 EXCEPT !.f = Append(@, <<"im", gamma, kappa0, s, theta0 % 4>>)],
            t |-> theta]

\* ------------------------------------------------------------------ Spiral
SpiralInit(curvstart, curvend, length) ==
  [obj |-> [kind |-> "Spiral", length |-> length, curvstart |-> curvstart,
            curvend |-> curvend],
   err |-> "none"]

SpiralGetEndData(self, x, y, h) ==
  LET spiral == CreateFromLengthAndCurvature(self.length, self.curvstart, self.curvend)
  IN  IF spiral.err # "none" THEN Raise(self, spiral.err)
      ELSE LET c == Calc(spiral.gamma, self.length, x, y, self.curvstart, h)
           IN  Ret(self, c.x, c.y, c.t, Some(self.length))

\* ------------------------------------------------------------------ ParamPoly3
ParamPoly3Init(co, prange, length) ==
  IF prange = "arcLength" /\ length = None THEN Raise(NoObj, "ValueError")
  ELSE [obj |-> [kind |-> "ParamPoly3", length |-> length, prange |-> prange,
                 au |-> co[1], bu |-> co[2], cu |-> co[3], du |-> co[4],
                 av |-> co[5], bv |-> co[6], cv |-> co[7], dv |-> co[8]],
        err |-> "none"]

\* the quantity under the square root in _integrand at p = j/2, times 16
Radicand16(self, j) ==
    16 * (self.bu * self.bu + self.bv * self.bv)
  + 8 * (4 * (self.bu * self.cu + self.bv * self.cv)) * j
  + 4 * (2 * (3 * self.bu * self.du + 2 * self.cu * self.cu
              + 3 * self.bv * self.dv + 2 * self.cv * self.cv)) * j * j
  + 2 * (12 * (self.cu * self.du + self.cv * self.dv)) * j * j * j
  + 9 * (self.du * self.du + self.dv * self.dv) * j * j * j * j

\* 4 * _integrand(j/2)
Integrand4(self, j) == ISqrt(Radicand16(self, j))

\* quad(self._integrand, 0, 1)[0]: Simpson's rule on 0, 1/2, 1, which is exact
\* for the integrands of the model's coefficient sets (polynomials of degree 2)
Quad(self) == (Integrand4(self, 0) + 4 * Integrand4(self, 1) + Integrand4(self, 2)) \div 24

\* the two arguments get_end_data passes to np.arctan2 at parameter p
TangentArgs(self, p) ==
  <<self.bv + self.cv * p + self.dv * p * p, self.bu + self.cu * p + self.du * p * p>>

\* ParamPoly3GetEndData integrating for the length in arcLength mode as well
ParamPoly3GetEndDataIntegrates(self, x, y, h) ==
  LET self1 == [self EXCEPT !.length = Some(Quad(self))]
      p == IF self.prange = "normalized" THEN 1 ELSE self.length[1]
      newu == self.au + self.bu * p + self.cu * p * p + self.du * p * p * p
      newv == self.av + self.bv * p + self.cv * p * p + self.dv * p * p * p
      new_x == CAdd(x, newu * Cos(h) - Sin(h) * newv, 0)
      new_y == CAdd(y, newu * Sin(h) + Cos(h) * newv, 0)
      new_h == h + ArcTan2(TangentArgs(self, p)[1], TangentArgs(self, p)[2])
  IN  Ret(self1, new_x, new_y, new_h, self1.length)

ParamPoly3GetEndData(self, x, y, h) ==
  LET self1 == IF self.prange = "normalized"
               THEN [self EXCEPT !.length = Some(Quad(self))]
               ELSE self
      p == IF self.prange = "normalized" THEN 1 ELSE self.length[1]
      newu == self.au + self.bu * p + self.cu * p * p + self.du * p * p * p
      newv == self.av + self.bv * p + self.cv * p * p + self.dv * p * p * p
      new_x == CAdd(x, newu * Cos(h) - Sin(h) * newv, 0)
      new_y == CAdd(y, newu * Sin(h) + Cos(h) * newv, 0)
      new_h == h + ArcTan2(TangentArgs(self, p)[1], TangentArgs(self, p)[2])
  IN  Ret(self1, new_x, new_y, new_h, self1.length)

\* ------------------------------------------------------------------ dispatch
\* geom_type.get_end_data(x, y, h)
GetEndData(self, x, y, h) ==
  CASE self.kind = "Line" -> LineGetEndData(self, x, y, h)
    [] self.kind = "Arc" -> ArcGetEndData(self, x, y, h)
    [] self.kind = "Spiral" -> SpiralGetEndData(self, x, y, h)
    [] self.kind = "ParamPoly3" -> ParamPoly3GetEndData(self, x, y, h)

\* ------------------------------------------------------------------ state
VARIABLES
  start_args,   \* the arguments (x_start, y_start, h_start) PlanView() was built with
  present_x, present_y, present_h, present_s,
  raw,          \* _raw_geometries: references into heap
  adjusted,     \* _adjusted_geometries: _Geometry records
  overridden,   \* _overridden_headings
  heap,         \* the segment-spec constructor calls made and the objects they returned
  supplied,     \* history: the heading argument of each add_geometry call
  started,      \* history: the arguments of the latest set_start_point call, or None
  calls,        \* history: the last two get_end_data calls (object, start pose, outcome)
  last,         \* history: how the last operation ended
  folds,        \* history: len(_adjusted_geometries) at the start of each adjust_geometires call
  finalized,    \* history: an adjust_geometires call has returned
  nAdjust, nEvals

vars == <<start_args, present_x, present_y, present_h, present_s, raw, adjusted,
          overridden, heap, supplied, started, calls, last, folds, finalized, nAdjust,
          nEvals>>

planview == <<present_x, present_y, present_h, present_s, raw, adjusted,
              overridden, supplied, started, folds, finalized, nAdjust>>

Other == [op |-> "other"]

\* what a get_end_data call returned or raised, without the object
Outcome(e) ==
  IF e.err = "none"
  THEN [err |-> "none", x |-> e.x, y |-> e.y, h |-> e.h, length |-> e.length]
  ELSE [err |-> e.err]

Logged(log, ref, x, y, h, e) ==
  LET c == [x |-> x, y |-> y, h |-> h, ref |-> ref, out |-> Outcome(e)]
  IN  IF Len(log) < 2 THEN Append(log, c) ELSE <<log[2], c>>

\* ------------------------------------------------------------------ _Geometry
\* _Geometry.__init__: stores the start and evaluates the spec once for the length
GeometryInit(hp, s, x, y, heading, ref) ==
  LET e == GetEndData(hp[ref].obj, x, y, heading)
  IN  [e |-> e,
       geom |-> [x |-> x, y |-> y,
                 length |-> IF e.err = "none" THEN e.length ELSE None,
                 s |-> s, heading |-> heading, geom_type |-> ref]]

\* _Geometry.get_end_data: evaluates the spec again from the stored start
GeometryGetEndData(hp, g) == GetEndData(hp[g.geom_type].obj, g.x, g.y, g.heading)

\* ------------------------------------------------------------------ PlanView
PlanViewInit ==
  /\ present_x = Coord(0, 0)
  /\ present_y = Coord(0, 0)
  /\ present_h = 0
  /\ present_s = 0
  /\ raw = << >>
  /\ adjusted = << >>
  /\ overridden = << >>

\* get_total_length
get_total_length == present_s

\* the position of the fold: the fields adjust_geometires reads and writes
Snapshot(st) == [x |-> st.x, y |-> st.y, h |-> st.h, s |-> st.s, count |-> Len(st.adj)]

Failed(st, i, e, before) == [st EXCEPT !.err = e, !.failedAt = i, !.before = before]

\* Advance with the end heading dropped: present_h keeps the start heading
AdvanceKeepsHeading(st, i, g, e, before) ==
  LET st1 == [st EXCEPT !.x = e.x, !.y = e.y]
  IN  IF e.length = None
      THEN Failed(st1, i, "TypeError", before)
      ELSE [st1 EXCEPT !.s = @ + e.length[1], !.adj = Append(@, g)]

\* Advance with present_s = length in place of present_s += length
AdvanceAssignsS(st, i, g, e, before) ==
  LET st1 == [st EXCEPT !.x = e.x, !.y = e.y, !.h = e.h]
  IN  IF e.length = None
      THEN Failed(st1, i, "TypeError", before)
      ELSE [st1 EXCEPT !.s = e.length[1], !.adj = Append(@, g)]

\* Advance with the Geometry list rebuilt from the new entry in place of append
AdvanceRebuilds(st, i, g, e, before) ==
  LET st1 == [st EXCEPT !.x = e.x, !.y = e.y, !.h = e.h]
  IN  IF e.length = None
      THEN Failed(st1, i, "TypeError", before)
      ELSE [st1 EXCEPT !.s = @ + e.length[1], !.adj = <<g>>]

\* self.present_x, self.present_y, self.present_h, length = newgeom.get_end_data()
\* self.present_s += length ; self._adjusted_geometries.append(newgeom)
Advance(st, i, g, e, before) ==
  LET st1 == [st EXCEPT !.x = e.x, !.y = e.y, !.h = e.h]
  IN  IF e.length = None
      THEN Failed(st1, i, "TypeError", before)  \* present_s += None
      ELSE [st1 EXCEPT !.s = @ + e.length[1], !.adj = Append(@, g)]

\* the spec object and the call log after a get_end_data call made from st
Stored(st, i, e) ==
  [st EXCEPT !.heap[raw[i]].obj = e.obj,
             !.calls = Logged(@, raw[i], st.x, st.y, st.h, e)]

\* if len(self._overridden_headings) > 0: self.present_h = self._overridden_headings[i]
Override(st, i) == IF Len(overridden) > 0 THEN [st EXCEPT !.h = overridden[i]] ELSE st

\* one iteration of the loop of adjust_geometires, for the i-th raw geometry
\* (i counts from 1; the code's index is i - 1)
AdjustStep(st, i) ==
  LET before == Snapshot(st)
  IN  IF Len(overridden) > 0 /\ i > Len(overridden)
      THEN Failed(st, i, "IndexError", before)  \* self._overridden_headings[i]
      ELSE
        Bind(Override(st, i), LAMBDA st1 :
        Bind(GeometryInit(st1.heap, st1.s, st1.x, st1.y, st1.h, raw[i]), LAMBDA c :
        Bind(Stored(st1, i, c.e), LAMBDA st2 :
          IF c.e.err # "none" THEN Failed(st2, i, c.e.err, before)
          ELSE
            Bind(GeometryGetEndData(st2.heap, c.geom), LAMBDA e :
            Bind(Stored(st2, i, e), LAMBDA st3 :
              IF e.err # "none" THEN Failed(st3, i, e.err, before)
              ELSE Advance(st3, i, c.geom, e, before))))))

RECURSIVE AdjustLoop(_, _)
AdjustLoop(st, i) ==
  IF i > Len(raw) \/ st.err # "none" THEN st
  ELSE Bind(AdjustStep(st, i), LAMBDA next : AdjustLoop(next, i + 1))

\* ------------------------------------------------------------------ inputs
Lengths == {1, 2}

\* the Line length used on the PlanView
LineLengths == {2}

OptLengths == {None, Some(0), Some(1)}

OptAngles == {None, Some(0), Some(2), Some(-2)}

\* every combination of Arc arguments
ArcArgsAll == Curvatures \X OptLengths \X OptAngles

\* the Arc arguments used on the PlanView: an angle of the other sign than the
\* curvature, length 0, and angle 0
ArcArgs == { <<2, None, Some(-2)>>, <<2, Some(0), None>>, <<-1, None, Some(0)>> }

\* Spiral arguments (curvstart, curvend, length): straight, constant curvature,
\* clothoid, and length 0
SpiralArgsAll == { <<0, 0, 1>>, <<2, 2, 1>>, <<-1, -1, 2>>, <<0, 2, 1>>, <<2, 0, 2>>,
                   <<0, 0, 0>> }

\* the Spiral arguments used on the PlanView
SpiralArgs == { <<0, 2, 1>>, <<0, 0, 0>> }

\* ParamPoly3 coefficients (au, bu, cu, du, av, bv, cv, dv): along u or along v
Coefficients == { <<0, 1, 0, 0, 0, 0, 0, 0>>, <<0, 1, 1, 0, 0, 0, 0, 0>>,
                  <<0, 0, 0, 0, 0, 1, 0, 1>>, <<0, 3, -1, 0, 0, 0, 0, 0>>,
                  <<0, 1, 1, 1, 0, 0, 0, 0>> }

Poly3ArgsAll == Coefficients \X {"normalized", "arcLength"} \X {None, Some(2)}

\* the ParamPoly3 arguments used on the PlanView
Poly3Args == { <<<<0, 1, 1, 0, 0, 0, 0, 0>>, "normalized", None>> }

\* start points (x, y, h): the arguments of PlanView() and of a caller's
\* spec.get_end_data
StartPoints == { <<0, 0, 0>>, <<1, 2, 1>> }

\* the arguments of set_start_point
SetPoints == { <<1, 2, 1>> }

\* the heading argument of add_geometry
OptHeadings == {None, Some(0), Some(1)}

\* ------------------------------------------------------------------ Init
Init ==
  /\ start_args \in StartPoints
  /\ PlanViewInit
  /\ heap = << >>
  /\ supplied = << >>
  /\ started = None
  /\ calls = << >>
  /\ last = Other
  /\ folds = {}
  /\ finalized = FALSE
  /\ nAdjust = 0
  /\ nEvals = 0

\* ------------------------------------------------------------------ constructors
\* a constructor call: the call and what it returned or raised are kept on the heap
New(call, r) ==
  /\ Len(heap) < MaxSpecs
  /\ heap' = Append(heap, [obj |-> r.obj, err |-> r.err, call |-> call])
  /\ last' = Other
  /\ UNCHANGED <<start_args, planview, calls, nEvals>>

NewLine(S) ==
  \E length \in S : New([kind |-> "Line", length |-> length], LineInit(length))

NewArc(S) ==
  \E a \in S :
    New([kind |-> "Arc", length |-> a[2], curvature |-> a[1], angle |-> a[3]],
        ArcInit(a[1], a[2], a[3]))

NewSpiral(S) ==
  \E a \in S :
    New([kind |-> "Spiral", length |-> a[3], curvstart |-> a[1], curvend |-> a[2]],
        SpiralInit(a[1], a[2], a[3]))

NewParamPoly3(S) ==
  \E a \in S :
    New([kind |-> "ParamPoly3", length |-> a[3], co |-> a[1], prange |-> a[2]],
        ParamPoly3Init(a[1], a[2], a[3]))

\* the objects a caller holds: the constructor calls that returned
Objects == {ref \in 1..Len(heap) : heap[ref].err = "none"}

\* ------------------------------------------------------------------ operations
\* PlanView.add_geometry(geom, heading)
AddGeometryOverride(heading) ==
  IF Truthy(heading) THEN Append(overridden, heading[1]) ELSE overridden

add_geometry ==
  \E geom \in Objects, heading \in OptHeadings :
    /\ Len(supplied) < MaxSegs
    /\ overridden' = AddGeometryOverride(heading)
    /\ raw' = Append(raw, geom)
    /\ supplied' = Append(supplied, heading)
    /\ last' = Other
    /\ UNCHANGED <<start_args, present_x, present_y, present_h, present_s, adjusted,
                   heap, started, calls, folds, finalized, nAdjust, nEvals>>

\* PlanView.set_start_point(x_start, y_start, h_start)
set_start_point ==
  \E p \in SetPoints :
    /\ present_x' = Coord(p[1], 0)
    /\ present_y' = Coord(p[2], 0)
    /\ present_h' = p[3]
    /\ started' = Some(p)
    /\ last' = Other
    /\ UNCHANGED <<start_args, present_s, raw, adjusted, overridden, heap, supplied,
                   calls, folds, finalized, nAdjust, nEvals>>

\* PlanView.adjust_geometires(): the whole loop, up to the exception if one is raised
adjust_geometires ==
  /\ nAdjust < MaxAdjust
  /\ LET st0 == [err |-> "none", x |-> present_x, y |-> present_y, h |-> present_h,
                 s |-> present_s, heap |-> heap, calls |-> calls, adj |-> adjusted,
                 before |-> << >>, failedAt |-> 0]
     IN  \E st \in {AdjustLoop(st0, 1)} :
         /\ heap' = st.heap
         /\ present_x' = st.x
         /\ present_y' = st.y
         /\ present_h' = st.h
         /\ present_s' = st.s
         /\ adjusted' = st.adj
         /\ calls' = st.calls
         /\ last' = [err |-> st.err, op |-> "adjust", before |-> st.before,
                     failedAt |-> st.failedAt, entry |-> Snapshot(st0)]
         /\ finalized' = (finalized \/ st.err = "none")
  /\ folds' = folds \cup {Len(adjusted)}
  /\ nAdjust' = nAdjust + 1
  /\ UNCHANGED <<start_args, raw, overridden, supplied, started, nEvals>>

\* a caller's geom.get_end_data() on a _Geometry of the PlanView
geometry_get_end_data ==
  \E i \in 1..Len(adjusted) :
    /\ nEvals < MaxEvals
    /\ LET g == adjusted[i]
           e == GeometryGetEndData(heap, g)
       IN  /\ heap' = [heap EXCEPT ![g.geom_type].obj = e.obj]
           /\ calls' = Logged(calls, g.geom_type, g.x, g.y, g.heading, e)
    /\ nEvals' = nEvals + 1
    /\ last' = Other
    /\ UNCHANGED <<start_args, planview>>

\* a caller's spec.get_end_data(x, y, h) on a segment spec
spec_get_end_data ==
  \E ref \in Objects, p \in StartPoints :
    /\ nEvals < MaxCalls
    /\ LET e == GetEndData(heap[ref].obj, Coord(p[1], 0), Coord(p[2], 0), p[3])
       IN  /\ heap' = [heap EXCEPT ![ref].obj = e.obj]
           /\ calls' = Logged(calls, ref, Coord(p[1], 0), Coord(p[2], 0), p[3], e)
    /\ nEvals' = nEvals + 1
    /\ last' = Other
    /\ UNCHANGED <<start_args, planview>>

\* ------------------------------------------------------------------ specifications
\* the PlanView and its segments
Next ==
  \/ NewLine(LineLengths)
  \/ NewArc(ArcArgs)
  \/ NewSpiral(SpiralArgs)
  \/ NewParamPoly3(Poly3Args)
  \/ add_geometry
  \/ set_start_point
  \/ adjust_geometires
  \/ geometry_get_end_data

Spec == Init /\ [][Next]_vars

\* the segment specs alone: every constructor argument, evaluated by the caller
NextSeg ==
  \/ NewLine(Lengths)
  \/ NewArc(ArcArgsAll)
  \/ NewSpiral(SpiralArgsAll)
  \/ NewParamPoly3(Poly3ArgsAll)
  \/ spec_get_end_data

SpecSeg == Init /\ [][NextSeg]_vars

\* ------------------------------------------------------------------ claims
\* the state right after an adjust_geometires call that returned
AdjustCompleted == last.op = "adjust" /\ last.err = "none"

\* the state right after an adjust_geometires call that raised
AdjustRaised == last.op = "adjust" /\ last.err # "none"

\* what the end-pose accessor of the i-th Geometry returns in this state
EndData(i) == GeometryGetEndData(heap, adjusted[i])

\* the spec object the i-th Geometry wraps
Wrapped(i) == heap[adjusted[i].geom_type].obj

RECURSIVE SumLength(_, _)
\* the sum of the cached lengths of the first n entries of the Geometry sequence gs
SumLength(gs, n) == IF n = 0 THEN 0 ELSE SumLength(gs, n - 1) + gs[n].length[1]

C3_NoDuplication ==
  AdjustCompleted =>
    /\ Len(adjusted) = Len(raw)
    /\ get_total_length = SumLength(adjusted, Len(raw))

\* no add_geometry call was given a heading
NoHeadingSupplied == \A i \in 1..Len(supplied) : supplied[i] = None

\* C4 as stated: without heading arguments, after set_start_point(x, y, h) followed
\* by a completed adjust_geometires, Geometry 0 has s = 0 and the start pose
\* (x, y, h) of the latest set_start_point call, and Geometry i wraps the i-th raw
\* spec.
C4_FoldStartAndOrder ==
  (AdjustCompleted /\ started # None /\ NoHeadingSupplied /\ Len(raw) >= 1) =>
    /\ Len(adjusted) >= Len(raw)
    /\ adjusted[1].s = 0
    /\ adjusted[1].x = Coord(started[1][1], 0)
    /\ adjusted[1].y = Coord(started[1][2], 0)
    /\ adjusted[1].heading = started[1][3]
    /\ \A i \in 1..Len(raw) : adjusted[i].geom_type = raw[i]

\* C5 as stated: when every add_geometry call supplies a heading h_i (0 included),
\* the first adjust_geometires call completes and Geometry i starts at heading h_i.
\* (Stated for Line segments, whose evaluation never raises.)
C5_OverridePerSegment ==
  ( /\ last.op = "adjust"
    /\ nAdjust = 1
    /\ Len(supplied) >= 1
    /\ \A i \in 1..Len(supplied) : supplied[i] # None
    /\ \A i \in 1..Len(raw) : heap[raw[i]].obj.kind = "Line" ) =>
    /\ last.err = "none"
    /\ Len(adjusted) = Len(raw)
    /\ \A i \in 1..Len(raw) : adjusted[i].heading = supplied[i][1]

\* C6 as stated: PlanView(x_start, y_start, h_start) with no set_start_point call and
\* no heading arguments gives, after the first adjust_geometires, a first Geometry
\* starting at (x_start, y_start, h_start).
C6_ConstructorStartPose ==
  ( /\ AdjustCompleted
    /\ nAdjust = 1
    /\ started = None
    /\ NoHeadingSupplied
    /\ Len(adjusted) >= 1 ) =>
    /\ adjusted[1].x = Coord(start_args[1], 0)
    /\ adjusted[1].y = Coord(start_args[2], 0)
    /\ adjusted[1].heading = start_args[3]

\* the Arc constructor must raise: curvature 0, or both or neither of length, angle
ArcMustRaise(c) ==
  \/ c.curvature = 0
  \/ c.length # None /\ c.angle # None
  \/ c.length = None /\ c.angle = None

\* C7: a constructor call Arc(curvature, length, angle) raises exactly when curvature
\* is 0 or both or neither of length and angle are supplied, ParamPoly3 raises
\* exactly when prange is "arcLength" and no length is supplied, and a call that
\* returns has stored the given fields unchanged.
C7_ConstructionRejects ==
  [][ Len(heap') = Len(heap) + 1 =>
        LET r == heap'[Len(heap')]
            c == r.call
        IN  /\ r.err \in {"none", "ValueError"}
            /\ c.kind = "Arc" =>
                 /\ r.err = "ValueError" <=> ArcMustRaise(c)
                 /\ r.err = "none" =>
                      /\ r.obj.kind = "Arc"
                      /\ r.obj.curvature = c.curvature
                      /\ r.obj.length = c.length
                      /\ r.obj.angle = c.angle
            /\ c.kind = "ParamPoly3" =>
                 /\ r.err = "ValueError" <=> (c.prange = "arcLength" /\ c.length = None)
                 /\ r.err = "none" =>
                      /\ r.obj.kind = "ParamPoly3"
                      /\ <<r.obj.au, r.obj.bu, r.obj.cu, r.obj.du,
                           r.obj.av, r.obj.bv, r.obj.cv, r.obj.dv>> = c.co
                      /\ r.obj.prange = c.prange
                      /\ r.obj.length = c.length
            /\ c.kind \in {"Line", "Spiral"} => r.err = "none" ]_vars

\* C7 witness: an Arc call with length 0 supplied that returned, beside an Arc call
\* that raised
C7_Witness ==
  \E i, j \in 1..Len(heap) :
    /\ heap[i].call.kind = "Arc" /\ heap[i].err = "none"
    /\ heap[i].call.length = Some(0)
    /\ heap[j].call.kind = "Arc" /\ heap[j].err = "ValueError"

\* C8 as stated: when adjust_geometires raises at segment i, no Geometry for segment
\* i has been appended and present_x, present_y, present_h, present_s are as they
\* were when segment i was reached.
C8_AllOrNothing ==
  AdjustRaised =>
    /\ Len(adjusted) = last.before.count
    /\ present_x = last.before.x
    /\ present_y = last.before.y
    /\ present_h = last.before.h
    /\ present_s = last.before.s

\* C9 as stated: two successive get_end_data calls on a segment spec with the same
\* start pose return the same (x, y, heading, length); in particular the call of
\* the _Geometry constructor and the call of its end-pose accessor.
C9_Deterministic ==
  ( /\ Len(calls) = 2
    /\ calls[1].ref = calls[2].ref
    /\ calls[1].x = calls[2].x
    /\ calls[1].y = calls[2].y
    /\ calls[1].h = calls[2].h ) =>
    /\ calls[1].out.err = calls[2].out.err
    /\ calls[1].out.err = "none" => calls[1].out = calls[2].out

\* the object a constructor call returned
Constructed(c) ==
  CASE c.kind = "Line" -> LineInit(c.length).obj
    [] c.kind = "Arc" -> ArcInit(c.curvature, c.length, c.angle).obj
    [] c.kind = "Spiral" -> SpiralInit(c.curvstart, c.curvend, c.length).obj
    [] c.kind = "ParamPoly3" -> ParamPoly3Init(c.co, c.prange, c.length).obj

\* C10 as stated: every field of every segment spec holds the value it was
\* constructed with, whatever evaluations have been made.
C10_NoMutation == \A ref \in Objects : heap[ref].obj = Constructed(heap[ref].call)

\* the get_end_data calls of the log made on an object built by an Arc(...) call
ArcCalls == {n \in 1..Len(calls) : heap[calls[n].ref].call.kind = "Arc"}

\* C11 as stated: every evaluation of an Arc built with angle A # 0 returns length
\* |A / k| and end heading h + A, and every evaluation of an Arc built with length
\* L > 0 returns length L and end heading h + L * k; the evaluations
\* adjust_geometires makes included.
C11_ArcDerivation ==
  \A n \in ArcCalls :
    LET c == heap[calls[n].ref].call
        out == calls[n].out
    IN  /\ (c.angle # None /\ c.angle[1] # 0) =>
             /\ out.err = "none"
             /\ out.length = Some(Abs(c.angle[1]) \div Abs(c.curvature))
             /\ out.h = calls[n].h + c.angle[1]
        /\ (c.length # None /\ c.length[1] > 0) =>
             /\ out.err = "none"
             /\ out.length = c.length
             /\ out.h = calls[n].h + c.length[1] * c.curvature

\* C12 as stated: once an adjust_geometires call has returned, a step that is not
\* another adjust_geometires call (add_geometry, set_start_point) leaves the raw
\* sequence, the heading overrides, the pose fields, the Geometry sequence and the
\* total length as they are.
C12_FinalizedReadOnly ==
  [][ (finalized /\ nAdjust' = nAdjust) =>
        /\ raw' = raw
        /\ overridden' = overridden
        /\ present_x' = present_x
        /\ present_y' = present_y
        /\ present_h' = present_h
        /\ adjusted' = adjusted
        /\ get_total_length' = get_total_length ]_vars

\* C13: in every step, every Geometry of the derived sequence keeps its position in
\* the sequence and its stored fields s, x, y, heading and length.
C13_GeometryImmutable ==
  [][ \A i \in 1..Len(adjusted) :
        /\ Len(adjusted') >= i
        /\ adjusted'[i].s = adjusted[i].s
        /\ adjusted'[i].x = adjusted[i].x
        /\ adjusted'[i].y = adjusted[i].y
        /\ adjusted'[i].heading = adjusted[i].heading
        /\ adjusted'[i].length = adjusted[i].length ]_vars

\* C13 witness: a first Geometry that has been through a second adjust_geometires
\* call and an evaluation by the caller, on a PlanView that has seen a
\* set_start_point call, its spec object no longer as constructed
C13_Witness ==
  /\ nAdjust = 2
  /\ Len(adjusted) >= 2
  /\ started # None
  /\ nEvals = 1
  /\ Len(raw) >= 2
  /\ Wrapped(1) # Constructed(heap[adjusted[1].geom_type].call)

\* the Spiral(k, k, L) objects with L > 0 the caller holds
DegenerateSpirals ==
  {ref \in Objects : /\ heap[ref].obj.kind = "Spiral"
                     /\ heap[ref].obj.curvstart = heap[ref].obj.curvend
                     /\ heap[ref].obj.length > 0}

\* what Line(L), for k = 0, or Arc(curvature = k, length = L) returns from (x, y, h)
DegenerateEndData(k, L, x, y, h) ==
  IF k = 0 THEN Outcome(LineGetEndData(LineInit(L).obj, x, y, h))
  ELSE Outcome(ArcGetEndData(ArcInit(k, Some(L), None).obj, x, y, h))

\* C14: from every start pose, a Spiral(0, 0, L) with L > 0 returns
\* (x + L*cos(h), y + L*sin(h), h, L), as Line(L) does, and a Spiral(k, k, L) with
\* k # 0 returns what Arc(curvature = k, length = L) returns; so does every
\* evaluation the caller has made of such a Spiral.
C14_SpiralDegeneracy ==
  /\ \A ref \in DegenerateSpirals, p \in StartPoints :
       LET o == heap[ref].obj
           x == Coord(p[1], 0)
           y == Coord(p[2], 0)
           out == Outcome(SpiralGetEndData(o, x, y, p[3]))
       IN  /\ out = DegenerateEndData(o.curvstart, o.length, x, y, p[3])
           /\ o.curvstart = 0 =>
                out = [err |-> "none", x |-> CAdd(x, o.length * Cos(p[3]), 0),
                       y |-> CAdd(y, o.length * Sin(p[3]), 0), h |-> p[3],
                       length |-> Some(o.length)]
  /\ \A n \in 1..Len(calls) :
       calls[n].ref \in DegenerateSpirals =>
         LET o == heap[calls[n].ref].obj
         IN  calls[n].out =
               DegenerateEndData(o.curvstart, o.length, calls[n].x, calls[n].y, calls[n].h)

\* C14 witness: the caller has evaluated a Spiral of constant negative curvature from
\* a start pose with a heading, and a straight Spiral
C14_Witness ==
  /\ Len(calls) = 2
  /\ calls[1].ref \in DegenerateSpirals
  /\ calls[2].ref \in DegenerateSpirals
  /\ heap[calls[1].ref].obj.curvstart < 0
  /\ calls[1].h # 0
  /\ calls[1].out.err = "none"
  /\ calls[1].out.x # calls[1].x
  /\ heap[calls[2].ref].obj.curvstart = 0
  /\ calls[2].out.err = "none"

\* the parameter value at which get_end_data evaluates the polynomials of o
EndParameter(o) == IF o.prange = "normalized" THEN 1 ELSE o.length[1]

\* u'(p) = bu + 2*cu*p + 3*du*p^2
DU(o, p) == o.bu + 2 * o.cu * p + 3 * o.du * p * p

\* v'(p) = bv + 2*cv*p + 3*dv*p^2
DV(o, p) == o.bv + 2 * o.cv * p + 3 * o.dv * p * p

\* the get_end_data calls of the log made on a ParamPoly3 object
Poly3Calls == {n \in 1..Len(calls) : heap[calls[n].ref].obj.kind = "ParamPoly3"}

\* C15 as stated: every evaluation of a ParamPoly3 returns the end heading
\* h + atan2(v'(p), u'(p)), and the two arguments the code passes to atan2 are
\* v'(p) and u'(p), with p = 1 in normalized mode and p = length in arcLength mode.
C15_HeadingDerivatives ==
  \A n \in Poly3Calls :
    LET o == heap[calls[n].ref].obj
        p == EndParameter(o)
    IN  /\ calls[n].out.err = "none"
        /\ calls[n].out.h = calls[n].h + ArcTan2(DV(o, p), DU(o, p))
        /\ TangentArgs(o, p) = <<DV(o, p), DU(o, p)>>

\* 4 * u'(j/2) and 4 * v'(j/2)
DU4(o, j) == 4 * o.bu + 4 * o.cu * j + 3 * o.du * j * j

DV4(o, j) == 4 * o.bv + 4 * o.cv * j + 3 * o.dv * j * j

\* the integral over [0, 1] of the speed sqrt(u'(p)^2 + v'(p)^2), by Simpson's rule
SpeedIntegral(o) ==
  ( ISqrt(DU4(o, 0) * DU4(o, 0) + DV4(o, 0) * DV4(o, 0))
    + 4 * ISqrt(DU4(o, 1) * DU4(o, 1) + DV4(o, 1) * DV4(o, 1))
    + ISqrt(DU4(o, 2) * DU4(o, 2) + DV4(o, 2) * DV4(o, 2)) ) \div 24

\* u(p) and v(p)
PolyU(o, p) == o.au + o.bu * p + o.cu * p * p + o.du * p * p * p

PolyV(o, p) == o.av + o.bv * p + o.cv * p * p + o.dv * p * p * p

\* C16: the quantity under the square root in _integrand is u'(p)^2 + v'(p)^2 (at
\* five values of p, which determine a polynomial of degree 4); a normalized
\* ParamPoly3 reports the integral of the speed over [0, 1] as its length, which is 1
\* for bu = 1 and all other coefficients 0; an arcLength ParamPoly3 reports the
\* length given at construction and ends at (u(length), v(length)) in the frame of
\* the start pose.
C16_Poly3Length ==
  /\ \A ref \in Objects : heap[ref].obj.kind = "ParamPoly3" =>
       \A j \in 0..4 :
         Radicand16(heap[ref].obj, j) =
             DU4(heap[ref].obj, j) * DU4(heap[ref].obj, j)
           + DV4(heap[ref].obj, j) * DV4(heap[ref].obj, j)
  /\ \A n \in Poly3Calls :
       LET o == heap[calls[n].ref].obj
           c == heap[calls[n].ref].call
           out == calls[n].out
           h == calls[n].h
       IN  /\ out.err = "none"
           /\ c.prange = "normalized" =>
                /\ out.length = Some(SpeedIntegral(o))
                /\ c.co = <<0, 1, 0, 0, 0, 0, 0, 0>> => out.length = Some(1)
           /\ c.prange = "arcLength" =>
                /\ out.length = c.length
                /\ out.x = CAdd(calls[n].x, PolyU(o, c.length[1]) * Cos(h)
                                            - Sin(h) * PolyV(o, c.length[1]), 0)
                /\ out.y = CAdd(calls[n].y, PolyU(o, c.length[1]) * Sin(h)
                                            + Cos(h) * PolyV(o, c.length[1]), 0)

\* C16 witness: the caller has evaluated a normalized ParamPoly3 whose speed is not
\* constant, and an arcLength ParamPoly3 whose supplied length is not its integral
C16_Witness ==
  /\ Len(calls) = 2
  /\ calls[1].ref \in Objects /\ calls[2].ref \in Objects
  /\ heap[calls[1].ref].call.kind = "ParamPoly3"
  /\ heap[calls[2].ref].call.kind = "ParamPoly3"
  /\ heap[calls[1].ref].call.prange = "normalized"
  /\ heap[calls[1].ref].obj.cu # 0
  /\ calls[1].out.err = "none"
  /\ calls[1].out.length = Some(2)
  /\ heap[calls[2].ref].call.prange = "arcLength"
  /\ calls[2].out.err = "none"
  /\ calls[2].out.length # Some(SpeedIntegral(heap[calls[2].ref].obj))

\* C17 as stated: when only some add_geometry calls supply a heading, the first
\* adjust_geometires call completes, Geometry j starts at the heading passed in the
\* j-th call when one was passed and otherwise at the end heading of Geometry j-1
\* (the heading the PlanView had on entry for the first).  (Stated for Line
\* segments, whose evaluation never raises.)
C17_OverrideAssociation ==
  ( /\ last.op = "adjust"
    /\ nAdjust = 1
    /\ \E j \in 1..Len(supplied) : supplied[j] = None
    /\ \E j \in 1..Len(supplied) : supplied[j] # None
    /\ \A j \in 1..Len(raw) : heap[raw[j]].obj.kind = "Line" ) =>
    /\ last.err = "none"
    /\ Len(adjusted) = Len(raw)
    /\ \A j \in 1..Len(raw) :
         adjusted[j].heading =
           IF supplied[j] # None THEN supplied[j][1]
           ELSE IF j = 1 THEN last.entry.h
           ELSE EndData(j - 1).h

\* C18 as stated: every evaluation of a segment spec whose constructor returned
\* returns, with a numeric length >= 0, and adjust_geometires on a PlanView without
\* heading arguments completes.
C18_ErrorsAtConstruction ==
  /\ \A n \in 1..Len(calls) :
       /\ calls[n].out.err = "none"
       /\ calls[n].out.length # None
       /\ calls[n].out.length[1] >= 0
  /\ (last.op = "adjust" /\ NoHeadingSupplied) => last.err = "none"

====
